---- MODULE Spec2Model ----
(***************************************************************************)
(* jk-cli `install` command: ecosystem detection, dispatch to the          *)
(* per-ecosystem installers and the release acquisition pipeline.          *)
(*                                                                         *)
(* The repository holds two revisions of commands/install.js.  Both are    *)
(* modelled; `variant` says which one a behaviour runs:                    *)
(*   "strict" - the revision with detectPackageType, safeFetch and the     *)
(*              32-character digest guard;                                 *)
(*   "legacy" - jk-cli/src/commands/install.js (github: or npm only).      *)
(* An async function is cut at its awaits: an action is the code that runs *)
(* when the awaited thing settles, up to the next await.                   *)
(***************************************************************************)
EXTENDS Naturals, Sequences, FiniteSets, TLC

\* ------------------------------------------------------------ bounds
MaxPkgs == 2

\* ------------------------------------------------------------ strings
Char(s, i) == SubSeq(s, i, i)

IsSpace(c) == c \in {" ", "\t", "\n", "\r"}

RECURSIVE trimStart(_)
trimStart(s) ==
  IF Len(s) > 0 /\ IsSpace(Char(s, 1)) THEN trimStart(SubSeq(s, 2, Len(s))) ELSE s

RECURSIVE trimEnd(_)
trimEnd(s) ==
  IF Len(s) > 0 /\ IsSpace(Char(s, Len(s))) THEN trimEnd(SubSeq(s, 1, Len(s) - 1)) ELSE s

trim(s) == trimEnd(trimStart(s))

startsWith(s, p) == Len(s) >= Len(p) /\ SubSeq(s, 1, Len(p)) = p

endsWith(s, p) == Len(s) >= Len(p) /\ SubSeq(s, Len(s) - Len(p) + 1, Len(s)) = p

includes(s, p) == \E i \in 1..Len(s) : i + Len(p) - 1 <= Len(s) /\ SubSeq(s, i, i + Len(p) - 1) = p

\* first index at which p occurs in s, 0 when it does not occur
indexOf(s, p) ==
  IF includes(s, p)
    THEN CHOOSE i \in 1..Len(s) :
           /\ i + Len(p) - 1 <= Len(s)
           /\ SubSeq(s, i, i + Len(p) - 1) = p
           /\ \A j \in 1..(i - 1) : SubSeq(s, j, j + Len(p) - 1) # p
    ELSE 0

LowerChar(c) ==
  CASE c = "A" -> "a" [] c = "B" -> "b" [] c = "C" -> "c" [] c = "D" -> "d"
    [] c = "E" -> "e" [] c = "F" -> "f" [] c = "G" -> "g" [] c = "I" -> "i"
    [] c = "N" -> "n" [] c = "O" -> "o" [] c = "P" -> "p" [] c = "T" -> "t"
    [] OTHER -> c

RECURSIVE toLowerCase(_)
toLowerCase(s) ==
  IF Len(s) = 0 THEN s ELSE LowerChar(Char(s, 1)) \o toLowerCase(SubSeq(s, 2, Len(s)))

stripPrefix(str, prefix) ==
  IF startsWith(str, prefix) THEN SubSeq(str, Len(prefix) + 1, Len(str)) ELSE str

\* String.prototype.replace with a string pattern: first occurrence only
replaceFirst(s, p) ==
  LET i == indexOf(s, p)
  IN IF i = 0 THEN s ELSE SubSeq(s, 1, i - 1) \o SubSeq(s, i + Len(p), Len(s))

\* spec.split("@"): the pieces between the separators, in order
RECURSIVE split(_, _)
split(s, sep) ==
  LET i == indexOf(s, sep)
  IN IF i = 0 THEN <<s>>
     ELSE <<SubSeq(s, 1, i - 1)>> \o split(SubSeq(s, i + Len(sep), Len(s)), sep)

\* ------------------------------------------------------------ inputs
\* raw identifiers a caller may pass (process.argv.slice(3))
Identifiers ==
  { " ", "x", "Git", " lp ", "o/r",
    "npm:lp", "pip:", "cargo:rg", "go:gopls", "brew:jq", "github:o/r@v1" }

RECURSIVE SeqsUpTo(_, _)
SeqsUpTo(S, n) ==
  IF n = 0 THEN { <<>> }
  ELSE LET shorter == SeqsUpTo(S, n - 1)
       IN shorter \cup { Append(q, e) : q \in { r \in shorter : Len(r) = n - 1 }, e \in S }

Variants == { "strict", "legacy" }

\* the value of a property that was never set (printed as "undefined")
Undefined == "<undefined>"

\* ------------------------------------------------------------ environment
\* what `await fetch(...)` can do: reject or time out, answer with a
\* non-2xx status, or answer 2xx
FetchOutcomes == { "rejects", "notok", "ok" }

\* spawn(...): returns a child, or throws synchronously (invalid argument,
\* EPERM, ...)
SpawnOutcomes == { "started", "throws" }

ExitCodes == { 0, 1 }

\* node_modules: whether fs.readdirSync can list it, and the listing in the
\* order readdirSync returns it
Dir(names) == [exists |-> TRUE, names |-> names]
NoDir == [exists |-> FALSE, names |-> <<>>]
Stores == { NoDir, Dir(<<"lp">>) }

\* state of the destination file of a download
FileStates == { "missing", "empty", "partial", "full" }

\* an asset object of the release JSON; hasName FALSE when it has no `name`
Asset(n) == [name |-> n, hasName |-> TRUE]
Nameless == [name |-> Undefined, hasName |-> FALSE]

\* release.assets of the metadata answer: absent / not an array, or a list
Assets(items) == [isArray |-> TRUE, items |-> items]
NotArray == [isArray |-> FALSE, items |-> <<>>]
AssetLists ==
  { Assets(<<>>),
    Assets(<<Asset("t.exe")>>),
    Assets(<<Asset("t.exe"), Asset("t.zip"), Asset("u.zip")>>),
    Assets(<<Asset("t.zip"), Asset("t.tar.gz"), Asset("u.tar.gz")>>),
    Assets(<<Asset("t.exe"), Nameless>>),
    NotArray }

\* what the release-metadata request gives: no usable answer, a body that
\* does not parse, JSON null, or a release object
ReleaseAnswers ==
  { [kind |-> k, assets |-> NotArray] : k \in { "rejects", "notok", "unparsable", "null" } }
    \cup { [kind |-> "release", assets |-> a] : a \in AssetLists }

\* ------------------------------------------------------------ state
VARIABLES
  variant,    \* which revision of install.js runs
  pkgs,       \* the argument of install()
  pc,         \* where install() is suspended
  idx,        \* position of the for-of loop in pkgs (1-based)
  results,    \* const results = []
  summarised, \* summary(results) has been called
  loc,        \* locals of the request being processed
  log,        \* what the current request has done so far, in order
  store,      \* node_modules
  file        \* content of the download destination under os.tmpdir()

vars == <<variant, pkgs, pc, idx, results, summarised, loc, log, store, file>>

NoLoc ==
  [ req |-> 0, pkg |-> "", type |-> "", arg |-> "", repo |-> "", version |-> "",
    before |-> "missing", assets |-> NotArray, asset |-> Nameless,
    i |-> 0, ms |-> 0, installers |-> 0, ckAnswer |-> "", ckText |-> "",
    url |-> "", release |-> "" ]

Ev(e, n) == [ev |-> e, n |-> n]

Init ==
  /\ variant \in Variants
  /\ pkgs \in SeqsUpTo(Identifiers, MaxPkgs)
  /\ pc = "entry"
  /\ idx = 1
  /\ results = <<>>
  /\ summarised = FALSE
  /\ loc = NoLoc
  /\ log = <<>>
  /\ store \in Stores
  /\ file = "missing"

\* ------------------------------------------------------------ outcomes
\* an outcome record; `src` is the position of the request it was pushed for
Outcome(p, o, r) == [pkg |-> p, ok |-> o, reason |-> r, error |-> Undefined, src |-> idx]

Success(p) == Outcome(p, TRUE, Undefined)

Failure(p, r) == Outcome(p, FALSE, r)

\* Push as it would be if a failed request were skipped instead of recorded
PushFailuresDropped(o) ==
  /\ results' = IF o.ok THEN Append(results, o) ELSE results
  /\ idx' = idx + 1
  /\ pc' = "loop"

\* results.push(outcome) and on to the next iteration of the loop
Push(o) ==
  /\ results' = Append(results, o)
  /\ idx' = idx + 1
  /\ pc' = "loop"

\* the catch clause of install(): the request's exception becomes an outcome
CatchFatal(msg, done) ==
  /\ IF variant = "strict"
       THEN Push(Failure(loc.pkg, "fatal: " \o msg))
       ELSE Push([Failure(loc.pkg, Undefined) EXCEPT !.error = msg])
  /\ log' = done \o <<Ev("throw", 0), Ev("caught", 0)>>

\* ------------------------------------------------------------ helpers
NameRank(n) == CASE n = "lp" -> 1 [] n = "req" -> 2 [] OTHER -> 3

\* Array.prototype.sort() of a listing (insertion into a sorted prefix)
RECURSIVE insertSorted(_, _)
insertSorted(q, n) ==
  IF Len(q) = 0 THEN <<n>>
  ELSE IF NameRank(n) <= NameRank(Head(q)) THEN <<n>> \o q
  ELSE <<Head(q)>> \o insertSorted(Tail(q), n)

RECURSIVE sort(_)
sort(q) == IF Len(q) = 0 THEN q ELSE insertSorted(sort(Tail(q)), Head(q))

RECURSIVE join(_, _)
join(q, sep) ==
  IF Len(q) = 0 THEN ""
  ELSE IF Len(q) = 1 THEN Head(q)
  ELSE Head(q) \o sep \o join(Tail(q), sep)

\* crypto.createHash("sha256").update(text).digest("hex") of a listing:
\* distinct texts give distinct fingerprints
hashText(text) == "sha256(" \o text \o ")"

snapshotDir(d) ==
  IF ~d.exists THEN "missing"
  ELSE IF variant = "strict" THEN hashText(join(sort(d.names), "|"))
  ELSE hashText(join(d.names, "|"))

SystemTools == { "git", "python", "node", "cargo", "go", "pip", "pnpm", "bun" }

Prefixed == { "npm", "github", "pip", "cargo", "go", "brew" }

Secondary == { "pip", "cargo", "go", "brew" }

\* the first prefix test of detectPackageType that matches, in source order
prefixOf(clean) ==
  IF startsWith(clean, "npm:") THEN "npm"
  ELSE IF startsWith(clean, "github:") THEN "github"
  ELSE IF startsWith(clean, "pip:") THEN "pip"
  ELSE IF startsWith(clean, "cargo:") THEN "cargo"
  ELSE IF startsWith(clean, "go:") THEN "go"
  ELSE IF startsWith(clean, "brew:") THEN "brew"
  ELSE ""

\* the first test as it would be if only the empty string were refused
invalidLengthEmptyOnly(clean) == clean = ""

\* if (!clean || clean.length < 2) return "invalid"
invalidLength(clean) == clean = "" \/ Len(clean) < 2

\* detectPackageType as it would be with the probes ahead of the prefix tests
detectPackageTypeProbeFirst(pkg) ==
  LET clean == trim(pkg)
  IN IF clean = "" \/ Len(clean) < 2 THEN "invalid"
     ELSE IF toLowerCase(clean) \in SystemTools THEN "system"
     ELSE IF includes(clean, "/") THEN "probe_github"
     ELSE IF prefixOf(clean) # "" THEN prefixOf(clean)
     ELSE "probe_npm"

\* detectPackageType up to its first await: the type it returns without a
\* probe, or the probe it starts
detectPackageType(pkg) ==
  LET clean == trim(pkg)
  IN IF invalidLength(clean) THEN "invalid"
     ELSE IF toLowerCase(clean) \in SystemTools THEN "system"
     ELSE IF prefixOf(clean) # "" THEN prefixOf(clean)
     ELSE IF includes(clean, "/") THEN "probe_github"
     ELSE "probe_npm"

\* const [repo, version = "latest"] = spec.split("@")
specRepo(spec) == split(spec, "@")[1]

specVersion(spec) == IF Len(split(spec, "@")) >= 2 THEN split(spec, "@")[2] ELSE "latest"

\* the locals of an installer at its first await
enterNpm(l, arg) ==
  [l EXCEPT !.type = "npm", !.arg = arg, !.before = snapshotDir(store),
            !.installers = @ + 1]

\* the endpoint as it would be if the version were not looked at
releaseUrlAlwaysLatest(repo, version) ==
  "https://api.github.com/repos/" \o repo \o "/releases/latest"

\* the endpoint fetchRelease asks
releaseUrl(repo, version) ==
  IF version = "latest"
    THEN "https://api.github.com/repos/" \o repo \o "/releases/latest"
    ELSE "https://api.github.com/repos/" \o repo \o "/releases/tags/" \o version

enterGitHub(l, spec) ==
  [l EXCEPT !.type = "github", !.arg = spec, !.repo = specRepo(spec),
            !.version = specVersion(spec), !.installers = @ + 1,
            !.url = releaseUrl(specRepo(spec), specVersion(spec))]

enterSecondary(l, type, arg) ==
  [l EXCEPT !.type = type, !.arg = arg, !.installers = @ + 1]

\* ------------------------------------------------------------ install()
\* install(pkgs) is called
Enter ==
  /\ pc = "entry"
  /\ pc' = IF variant = "strict" /\ Len(pkgs) = 0 THEN "done" ELSE "loop"
  /\ UNCHANGED <<variant, pkgs, idx, results, summarised, loc, log, store, file>>

\* the loop is over: summary(results), and install() returns
Summary ==
  /\ pc = "loop"
  /\ idx > Len(pkgs)
  /\ summarised' = TRUE
  /\ pc' = "done"
  /\ loc' = NoLoc
  /\ log' = <<>>
  /\ UNCHANGED <<variant, pkgs, idx, results, store, file>>

\* strict: raw.trim() is empty
EmptyName ==
  /\ pc = "loop"
  /\ idx <= Len(pkgs)
  /\ variant = "strict"
  /\ trim(pkgs[idx]) = ""
  /\ Push(Failure(pkgs[idx], "empty package name"))
  /\ loc' = NoLoc
  /\ log' = <<>>
  /\ UNCHANGED <<variant, pkgs, summarised, store, file>>

\* strict: the next request enters the try block and detectPackageType
BeginRequest ==
  /\ pc = "loop"
  /\ idx <= Len(pkgs)
  /\ variant = "strict"
  /\ \E pkg \in { trim(pkgs[idx]) } :
       /\ pkg # ""
       /\ \E d \in { detectPackageType(pkg) } :
            IF d \in { "probe_github", "probe_npm" }
              THEN /\ pc' = d
                   /\ loc' = [NoLoc EXCEPT !.req = idx, !.pkg = pkg]
              ELSE /\ pc' = "dispatch"
                   /\ loc' = [NoLoc EXCEPT !.req = idx, !.pkg = pkg, !.type = d]
  /\ log' = <<Ev("detect", 0)>>
  /\ UNCHANGED <<variant, pkgs, idx, results, summarised, store, file>>

\* legacy: the next request goes to the github or to the npm installer
BeginRequestLegacy ==
  /\ pc = "loop"
  /\ idx <= Len(pkgs)
  /\ variant = "legacy"
  /\ LET pkg == pkgs[idx]
         l == [NoLoc EXCEPT !.req = idx, !.pkg = pkg]
     IN IF startsWith(pkg, "github:")
          THEN /\ loc' = enterGitHub(l, replaceFirst(pkg, "github:"))
               /\ log' = <<Ev("install_github", 0)>>
               /\ pc' = "fetch_release"
          ELSE /\ loc' = enterNpm(l, pkg)
               /\ log' = <<Ev("install_npm", 0)>>
               /\ pc' = "spawn"
  /\ UNCHANGED <<variant, pkgs, idx, results, summarised, store, file>>

\* the number logged for the answer of a probe: 1 for `res?.ok`, else 0
Answer(r) == IF r = "ok" THEN 1 ELSE 0

\* the hosting probe as it would be if a failed probe ended detection
ProbeGitHubNoAdvance(r) ==
  /\ pc = "probe_github"
  /\ log' = Append(log, Ev("probe_github", Answer(r)))
  /\ loc' = [loc EXCEPT !.type = IF r = "ok" THEN "github" ELSE "invalid"]
  /\ pc' = "dispatch"
  /\ UNCHANGED <<variant, pkgs, idx, results, summarised, store, file>>

\* safeFetch of the hosting API settles (null when fetch rejected)
ProbeGitHub(r) ==
  /\ pc = "probe_github"
  /\ log' = Append(log, Ev("probe_github", Answer(r)))
  /\ IF r = "ok"
       THEN /\ loc' = [loc EXCEPT !.type = "github"]
            /\ pc' = "dispatch"
       ELSE /\ loc' = loc
            /\ pc' = "probe_npm"
  /\ UNCHANGED <<variant, pkgs, idx, results, summarised, store, file>>

\* safeFetch of the registry settles
ProbeNpm(r) ==
  /\ pc = "probe_npm"
  /\ log' = Append(log, Ev("probe_npm", Answer(r)))
  /\ loc' = [loc EXCEPT !.type = IF r = "ok" THEN "npm" ELSE "invalid"]
  /\ pc' = "dispatch"
  /\ UNCHANGED <<variant, pkgs, idx, results, summarised, store, file>>

\* the dispatch as it would be if the installer were started without
\* being awaited: the loop moves on while the installer runs
DispatchInstallerNotAwaited ==
  /\ pc = "dispatch"
  /\ loc.type \in Prefixed
  /\ log' = Append(log, Ev("install_" \o loc.type, 0))
  /\ idx' = idx + 1
  /\ IF loc.type = "npm"
       THEN /\ loc' = enterNpm(loc, stripPrefix(loc.pkg, "npm:"))
            /\ pc' = "spawn"
       ELSE IF loc.type = "github"
       THEN /\ loc' = enterGitHub(loc, stripPrefix(loc.pkg, "github:"))
            /\ pc' = "fetch_release"
       ELSE /\ loc' = enterSecondary(loc, loc.type, stripPrefix(loc.pkg, loc.type \o ":"))
            /\ pc' = "spawn"
  /\ UNCHANGED <<variant, pkgs, results, summarised, store, file>>

\* switch (type): one of the six installers is called
DispatchInstaller ==
  /\ pc = "dispatch"
  /\ loc.type \in Prefixed
  /\ log' = Append(log, Ev("install_" \o loc.type, 0))
  /\ IF loc.type = "npm"
       THEN /\ loc' = enterNpm(loc, stripPrefix(loc.pkg, "npm:"))
            /\ pc' = "spawn"
       ELSE IF loc.type = "github"
       THEN /\ loc' = enterGitHub(loc, stripPrefix(loc.pkg, "github:"))
            /\ pc' = "fetch_release"
       ELSE /\ loc' = enterSecondary(loc, loc.type, stripPrefix(loc.pkg, loc.type \o ":"))
            /\ pc' = "spawn"
  /\ UNCHANGED <<variant, pkgs, idx, results, summarised, store, file>>

\* the reason of the "system" case (the source writes a dash U+2014 where
\* this string has "-")
SystemToolReason == "system tool - cannot be installed via jk"

\* the two cases as they would be if they handed the request to the npm
\* installer
DispatchRejectInstalls ==
  /\ pc = "dispatch"
  /\ loc.type \notin Prefixed
  /\ loc' = [loc EXCEPT !.arg = loc.pkg, !.before = snapshotDir(store),
                        !.installers = @ + 1]
  /\ log' = Append(log, Ev("install_npm", 0))
  /\ pc' = "spawn"
  /\ UNCHANGED <<variant, pkgs, idx, results, summarised, store, file>>

\* switch (type): "system" and the default case push a failure directly
DispatchReject ==
  /\ pc = "dispatch"
  /\ loc.type \notin Prefixed
  /\ IF loc.type = "system"
       THEN Push(Failure(loc.pkg, SystemToolReason))
       ELSE Push(Failure(loc.pkg, "unknown or invalid package"))
  /\ UNCHANGED <<variant, pkgs, summarised, loc, log, store, file>>

\* ------------------------------------------------------------ runCommand
\* the executor of runCommand's promise calls spawn(...cmd)
Spawn(o) ==
  /\ pc = "spawn"
  /\ IF o = "throws"
       THEN CatchFatal("spawn EPERM", Append(log, Ev("spawn", 0)))
       ELSE /\ pc' = "child"
            /\ log' = Append(log, Ev("spawn", 0))
            /\ UNCHANGED <<idx, results>>
  /\ UNCHANGED <<variant, pkgs, summarised, loc, store, file>>

\* the child emits 'error' (the command does not exist): runCommand listens
\* for 'close' only, so the event is an uncaught exception and the awaited
\* promise is never settled
ChildError ==
  /\ pc = "child"
  /\ pc' = "aborted"
  /\ log' = Append(log, Ev("child_error", 0))
  /\ UNCHANGED <<variant, pkgs, idx, results, summarised, loc, store, file>>

\* the test as it would be if a no-op install were never noticed
noChangesIgnored(before, after) == FALSE

\* if (before === after)
noChanges(before, after) == before = after

\* the 'close' handler as it would be if a secondary installer ran its
\* command again after a nonzero exit code
ChildCloseRerun(code, st) ==
  /\ pc = "child"
  /\ loc.type # "npm" => st = store
  /\ store' = st
  /\ log' = Append(log, Ev("close", code))
  /\ LET ok == code = 0
         after == snapshotDir(st)
     IN IF loc.type = "npm"
          THEN IF ~ok
                 THEN Push(Failure(loc.arg, IF variant = "strict"
                                              THEN "npm exited with non-zero code"
                                              ELSE "npm failed"))
               ELSE IF noChanges(loc.before, after)
                 THEN Push(Failure(loc.arg, IF variant = "strict"
                                              THEN "no changes detected in node_modules"
                                              ELSE "no changes detected (empty install)"))
               ELSE Push(Success(loc.arg))
          ELSE IF ok THEN Push(Success(loc.arg))
               ELSE pc' = "spawn" /\ UNCHANGED <<idx, results>>
  /\ UNCHANGED <<variant, pkgs, summarised, loc, file>>

\* the child emits 'close' with its exit code; st is node_modules as the
\* child left it (only npm writes there)
ChildClose(code, st) ==
  /\ pc = "child"
  /\ loc.type # "npm" => st = store
  /\ store' = st
  /\ log' = Append(log, Ev("close", code))
  /\ LET ok == code = 0
         after == snapshotDir(st)
     IN IF loc.type = "npm"
          THEN IF ~ok
                 THEN Push(Failure(loc.arg, IF variant = "strict"
                                              THEN "npm exited with non-zero code"
                                              ELSE "npm failed"))
               ELSE IF noChanges(loc.before, after)
                 THEN Push(Failure(loc.arg, IF variant = "strict"
                                              THEN "no changes detected in node_modules"
                                              ELSE "no changes detected (empty install)"))
               ELSE Push(Success(loc.arg))
          ELSE IF ok THEN Push(Success(loc.arg))
               ELSE Push(Failure(loc.arg, loc.type \o " install failed"))
  /\ UNCHANGED <<variant, pkgs, summarised, loc, file>>

\* ------------------------------------------------------------ release
\* assets.find(a => a.name.endsWith(suffix)): the index of the first asset
\* the callback accepts, 0 when there is none; the callback throws a
\* TypeError on an asset without a name, which ends the search there
findEndsWith(items, suffix) ==
  LET stops == { i \in 1..Len(items) :
                   ~items[i].hasName \/ endsWith(items[i].name, suffix) }
      first == CHOOSE i \in stops : \A j \in stops : i <= j
  IN IF stops = {} THEN [at |-> 0, throws |-> FALSE]
     ELSE [at |-> first, throws |-> ~items[first].hasName]

\* the value selectAsset returns: an asset (at > 0), null (at = 0), or the
\* TypeError it throws
selectAssetLegacy(items) ==
  LET tgz == findEndsWith(items, ".tar.gz")
      zip == findEndsWith(items, ".zip")
  IN IF Len(items) = 0 THEN [at |-> 0, throws |-> FALSE]
     ELSE IF tgz.throws \/ tgz.at > 0 THEN tgz
     ELSE IF zip.throws \/ zip.at > 0 THEN zip
     ELSE [at |-> 1, throws |-> FALSE]

\* selectAsset as it would be with the two searches in the other order
selectAssetZipFirst(items) ==
  LET tgz == findEndsWith(items, ".tar.gz")
      zip == findEndsWith(items, ".zip")
  IN IF zip.throws \/ zip.at > 0 THEN zip
     ELSE IF tgz.throws \/ tgz.at > 0 THEN tgz
     ELSE [at |-> 0, throws |-> FALSE]

selectAsset(items) ==
  LET tgz == findEndsWith(items, ".tar.gz")
      zip == findEndsWith(items, ".zip")
  IN IF tgz.throws \/ tgz.at > 0 THEN tgz
     ELSE IF zip.throws \/ zip.at > 0 THEN zip
     ELSE [at |-> 0, throws |-> FALSE]

TypeErrorMessage == "Cannot read properties of undefined (reading 'endsWith')"

\* fetchRelease settles, then installFromGitHub runs up to the first
\* download attempt
FetchRelease(a) ==
  /\ pc = "fetch_release"
  /\ LET fetched == Append(log, Ev("fetch_release", 0))
         items == IF a.assets.isArray THEN a.assets.items ELSE <<>>
         sel == IF variant = "strict" THEN selectAsset(items) ELSE selectAssetLegacy(items)
         l == [loc EXCEPT !.assets = a.assets, !.release = a.kind]
     IN IF a.kind # "release"
          THEN /\ Push(Failure(loc.arg, "release not found"))
               /\ loc' = [loc EXCEPT !.release = a.kind]
               /\ log' = fetched
        ELSE IF variant = "strict" /\ (~a.assets.isArray \/ Len(items) = 0)
          THEN /\ Push(Failure(loc.arg, "no assets in release"))
               /\ loc' = l
               /\ log' = fetched
        ELSE IF sel.throws
          THEN /\ CatchFatal(TypeErrorMessage, Append(fetched, Ev("select_asset", 0)))
               /\ loc' = l
        ELSE IF sel.at = 0
          THEN /\ Push(Failure(loc.arg, IF variant = "strict"
                                          THEN "no supported asset types"
                                          ELSE "no valid assets"))
               /\ loc' = l
               /\ log' = Append(fetched, Ev("select_asset", 0))
        ELSE /\ loc' = [l EXCEPT !.asset = items[sel.at], !.i = 0]
             /\ log' = Append(fetched, Ev("select_asset", 0))
             /\ pc' = "download"
             /\ UNCHANGED <<idx, results>>
  /\ UNCHANGED <<variant, pkgs, summarised, store, file>>

\* ------------------------------------------------------------ download
\* downloadWithRetry(url, dest, retries = 2) in the strict revision
Retries == 2

\* downloadWithRetry(url, dest, retries = 3) in the legacy revision
RetriesLegacy == 3

\* await wait(500 * (i + 1))
BackoffMs == 500

\* the loop condition as it would be if it ran one round too many
moreAttemptsOffByOne(i) ==
  IF variant = "strict" THEN i <= Retries + 1 ELSE i <= RetriesLegacy

\* the loop condition of downloadWithRetry for counter value i
moreAttempts(i) == IF variant = "strict" THEN i <= Retries ELSE i < RetriesLegacy

\* the backoff as it would be with a wait that does not grow
BackoffFlat(l) == [l EXCEPT !.ms = BackoffMs]

\* a failed attempt: downloadWithRetry goes to sleep
Backoff(l) == [l EXCEPT !.ms = BackoffMs * (l.i + 1)]

\* what the download request gives; "nobody" answers 2xx with no body
DownloadAnswers == FetchOutcomes \cup { "nobody" }

\* the attempt as it would be if the last failed attempt were not followed
\* by a wait
DownloadFetchNoLastWait(r) ==
  /\ pc = "download"
  /\ LET tried == Append(log, Ev("attempt", loc.i + 1))
     IN IF r = "ok"
          THEN /\ file' = "empty"
               /\ pc' = "stream"
               /\ loc' = loc
               /\ log' = tried
               /\ UNCHANGED <<idx, results>>
        ELSE IF r = "nobody" /\ variant = "legacy"
          THEN /\ file' = "empty"
               /\ CatchFatal("Cannot read properties of null (reading 'pipe')", tried)
               /\ loc' = loc
        ELSE IF ~moreAttempts(loc.i + 1)
          THEN /\ Push(Failure(loc.arg, "download failed"))
               /\ loc' = loc
               /\ log' = tried
               /\ UNCHANGED file
        ELSE /\ pc' = "wait"
             /\ loc' = Backoff(loc)
             /\ log' = tried
             /\ UNCHANGED <<idx, results, file>>
  /\ UNCHANGED <<variant, pkgs, summarised, store>>

\* downloadFile: the request for the asset settles
DownloadFetch(r) ==
  /\ pc = "download"
  /\ LET tried == Append(log, Ev("attempt", loc.i + 1))
     IN IF r = "ok"
          THEN /\ file' = "empty"
               /\ pc' = "stream"
               /\ loc' = loc
               /\ log' = tried
               /\ UNCHANGED <<idx, results>>
        ELSE IF r = "nobody" /\ variant = "legacy"
          THEN /\ file' = "empty"
               /\ CatchFatal("Cannot read properties of null (reading 'pipe')", tried)
               /\ loc' = loc
        ELSE /\ pc' = "wait"
             /\ loc' = Backoff(loc)
             /\ log' = tried
             /\ UNCHANGED <<idx, results, file>>
  /\ UNCHANGED <<variant, pkgs, summarised, store>>

\* the test as it would be if the size were not looked at
fileExistsAnySize(st) == st # "missing"

\* fs.statSync(file): isFile() and size > 0 (the legacy revision looks at
\* the size only); a file that is not there makes statSync throw
fileExistsNonZero(st) == st \in { "partial", "full" }

\* the body stream emits 'end' or 'error'; content is what the destination
\* file holds at that moment
DownloadStream(ev, content) ==
  /\ pc = "stream"
  /\ ev \in { "end", "error" }
  /\ ev = "error" => content # "full"
  /\ file' = content
  /\ IF ev = "error"
       THEN /\ pc' = "wait"
            /\ loc' = Backoff(loc)
            /\ log' = log
            /\ UNCHANGED <<idx, results>>
     ELSE IF ~fileExistsNonZero(content)
       THEN /\ Push(Failure(loc.arg, IF variant = "strict"
                                       THEN "downloaded file empty or missing"
                                       ELSE "file empty or missing"))
            /\ loc' = loc
            /\ log' = Append(log, Ev("file_check", 0))
     ELSE /\ pc' = "fetch_checksum"
          /\ loc' = loc
          /\ log' = Append(log, Ev("file_check", 0))
          /\ UNCHANGED <<idx, results>>
  /\ UNCHANGED <<variant, pkgs, summarised, store>>

\* the body stream is closed without 'end' and without 'error': nothing
\* resolves downloadFile's promise
DownloadStalls ==
  /\ pc = "stream"
  /\ pc' = "hung"
  /\ UNCHANGED <<variant, pkgs, idx, results, summarised, loc, log, store, file>>

\* the timer of wait() fires: next attempt, or the budget is used up
WaitElapsed ==
  /\ pc = "wait"
  /\ log' = Append(log, Ev("wait", loc.ms))
  /\ loc' = [loc EXCEPT !.i = @ + 1]
  /\ IF moreAttempts(loc.i + 1)
       THEN /\ pc' = "download"
            /\ UNCHANGED <<idx, results>>
       ELSE Push(Failure(loc.arg, "download failed"))
  /\ UNCHANGED <<variant, pkgs, summarised, store, file>>

\* ------------------------------------------------------------ checksum
\* if (!expected || expected.length < 32) return false
MinDigestLen == 32

\* crypto.createHash("sha256").update(fs.readFileSync(file)).digest("hex"):
\* 64 lowercase hex characters, different for different contents
sha256(content) ==
  CASE content = "empty" -> "e3b0c44298fc1c149afbf4c8996fb92427ae41e4649b934ca495991b7852b855"
    [] content = "partial" -> "9834a14ab9bcaa0f6a8da71073617eac8f004e596a3fa11d807b84631b825d9d"
    [] content = "full" -> "a18b869b2e81c0c529552a3c4fa5c92ed08b98a4e146aed778d71d27517f83ac"

\* the digest with its first letter in upper case
UpperFirst == "A18b869b2e81c0c529552a3c4fa5c92ed08b98a4e146aed778d71d27517f83ac"

\* bodies the checksum.sha256 request may answer with
Texts ==
  { " \n", SubSeq(sha256("full"), 1, 31),
    sha256("full") \o "\n", sha256("partial"), UpperFirst }

\* what the checksum request gives; "textfails" answers 2xx with a body
\* whose reading rejects
ChecksumAnswers == FetchOutcomes \cup { "textfails" }

\* `expected` of verifySha256 once the body is read and trimmed
expectedOf(text) == trim(text)

\* the guard as it would be without the length test
tooShortEmptyOnly(expected) == expected = ""

\* the guard of the strict revision on `expected`
tooShort(expected) == expected = "" \/ Len(expected) < MinDigestLen

\* the comparison as it would be if the case of the letters were ignored
digestsMatchAnyCase(expected, actual) == toLowerCase(expected) = toLowerCase(actual)

\* return expected === actual
digestsMatch(expected, actual) == expected = actual

\* what verifySha256 resolves to when the checksum request gave r with
\* body text and the downloaded file holds content
verifySha256Legacy(r, text, content) ==
  /\ r = "ok"
  /\ content # "missing"
  /\ digestsMatch(expectedOf(text), sha256(content))

\* verifySha256 as it would be if any answered body were accepted
verifySha256AnyBody(r, text, content) == r = "ok"

verifySha256(r, text, content) ==
  /\ r = "ok"
  /\ ~tooShort(expectedOf(text))
  /\ digestsMatch(expectedOf(text), sha256(content))

\* verifySha256 gets as far as sha256(file)
readsFile(r, text) ==
  r = "ok" /\ (variant = "strict" => ~tooShort(expectedOf(text)))

\* what the destination file can hold later than a moment at which it held
\* c: chunks the write stream had not flushed yet may have landed
Landed(c) ==
  CASE c = "missing" -> FileStates
    [] c = "empty" -> { "empty", "partial", "full" }
    [] c = "partial" -> { "partial", "full" }
    [] OTHER -> { c }

\* verifySha256 settles, then installFromGitHub returns its outcome; when
\* sha256(file) runs it reads what the file holds by then
FetchChecksum(r, text) ==
  /\ pc = "fetch_checksum"
  /\ r # "ok" => text = ""
  /\ \E content \in (IF readsFile(r, text) THEN Landed(file) ELSE { file }) :
       LET fetched == Append(log, Ev("fetch_checksum", 0))
           hashed == IF readsFile(r, text) THEN Append(fetched, Ev("sha256", 0)) ELSE fetched
           verified == IF variant = "strict" THEN verifySha256(r, text, content)
                       ELSE verifySha256Legacy(r, text, content)
       IN /\ file' = content
          /\ loc' = [loc EXCEPT !.ckAnswer = r, !.ckText = text]
          /\ IF readsFile(r, text) /\ content = "missing" /\ variant = "strict"
               THEN CatchFatal("ENOENT: no such file or directory", hashed)
             ELSE /\ log' = hashed
                  /\ IF verified
                       THEN Push(Success(loc.arg))
                       ELSE Push(Failure(loc.arg, IF variant = "strict"
                                                    THEN "integrity failed (checksum required)"
                                                    ELSE "integrity failed"))
  /\ UNCHANGED <<variant, pkgs, summarised, store>>

\* ------------------------------------------------------------ behaviours
Next ==
  \/ Enter
  \/ Summary
  \/ EmptyName
  \/ BeginRequest
  \/ BeginRequestLegacy
  \/ \E r \in FetchOutcomes : ProbeGitHub(r)
  \/ \E r \in FetchOutcomes : ProbeNpm(r)
  \/ DispatchInstaller
  \/ DispatchReject
  \/ \E o \in SpawnOutcomes : Spawn(o)
  \/ ChildError
  \/ \E code \in ExitCodes, st \in Stores : ChildClose(code, st)
  \/ \E a \in ReleaseAnswers : FetchRelease(a)
  \/ \E r \in DownloadAnswers : DownloadFetch(r)
  \/ \E ev \in { "end", "error" }, content \in FileStates : DownloadStream(ev, content)
  \/ DownloadStalls
  \/ WaitElapsed
  \/ \E r \in ChecksumAnswers \ { "ok" } : FetchChecksum(r, "")
  \/ \E text \in Texts : FetchChecksum("ok", text)

Spec == Init /\ [][Next]_vars

\* every step of install() that can be taken is taken eventually
FairSpec == Spec /\ WF_vars(Next)

\* ------------------------------------------------------------ views
\* the outcome pushed last
Last == results[Len(results)]

\* install() has just pushed the outcome of the request whose locals and
\* log are still in loc and log
Recorded == pc = "loop" /\ Len(results) >= 1 /\ loc.req = Len(results)

Count(e) == Cardinality({ j \in 1..Len(log) : log[j].ev = e })

Happened(e) == Count(e) > 0

\* the stage of the release pipeline an event belongs to
StageOf(e) ==
  CASE e = "fetch_release" -> 1
    [] e = "select_asset" -> 2
    [] e \in { "attempt", "wait" } -> 3
    [] e = "file_check" -> 4
    [] e \in { "fetch_checksum", "sha256" } -> 5
    [] e \in { "throw", "caught" } -> 6
    [] OTHER -> 0

\* the last stage the request started
LastStage == IF Len(log) = 0 THEN 0
             ELSE CHOOSE m \in 0..6 :
                    /\ \E j \in 1..Len(log) : StageOf(log[j].ev) = m
                    /\ \A j \in 1..Len(log) : StageOf(log[j].ev) <= m

\* names under which the outcome of raw identifier `raw` is reported
ReportedNames(raw) ==
  { raw, trim(raw), replaceFirst(raw, "github:") }
    \cup { stripPrefix(trim(raw), p \o ":") : p \in Prefixed }

\* ------------------------------------------------------------ C1
\* C1: install() records one outcome per input identifier, in input order:
\* while the loop is at position idx exactly idx - 1 outcomes are recorded,
\* the i-th outcome was pushed for the i-th identifier and names it, and when
\* install() has returned there are exactly Len(pkgs) outcomes.
C1_OneOutcomePerRequest ==
  /\ Len(results) = idx - 1
  /\ idx <= Len(pkgs) + 1
  /\ \A i \in 1..Len(results) :
       /\ results[i].src = i
       /\ results[i].pkg \in ReportedNames(pkgs[i])
  /\ pc = "done" => Len(results) = Len(pkgs)

\* a finished batch of two equal identifiers, one failed and one installed
C1_Witness ==
  /\ pc = "done"
  /\ Len(pkgs) = 2
  /\ pkgs[1] = pkgs[2]
  /\ ~results[1].ok
  /\ results[2].ok

\* ------------------------------------------------------------ C2
IntegrityReasons == { "integrity failed (checksum required)", "integrity failed" }

EmptyFileReasons == { "downloaded file empty or missing", "file empty or missing" }

NoAssetReasons == { "no supported asset types", "no valid assets" }

\* the stage at which a failure reason of installFromGitHub is returned
FailedStage(reason) ==
  CASE reason = "release not found" -> 1
    [] reason = "no assets in release" -> 1
    [] reason \in NoAssetReasons -> 2
    [] reason = "download failed" -> 3
    [] reason \in EmptyFileReasons -> 4
    [] reason \in IntegrityReasons -> 5
    [] OTHER -> 6

\* the events of the log are in the order of the pipeline's stages
StagesInOrder ==
  \A j, k \in 1..Len(log) : j < k => StageOf(log[j].ev) <= StageOf(log[k].ev)

\* C2: a github request ends with ok = true only if release resolution,
\* asset selection, download with the non-empty-file check, and checksum
\* verification each ran once, in that order, and each succeeded; a request
\* that failed at a stage started no later stage.
C2_GitHubPipelineOrder ==
  loc.type = "github" =>
    /\ StagesInOrder
    /\ \A e \in { "fetch_release", "select_asset", "file_check", "fetch_checksum", "sha256" } :
         Count(e) <= 1
    /\ (Recorded /\ Last.ok) =>
         /\ Happened("fetch_release") /\ loc.assets.isArray
         /\ Happened("select_asset")
         /\ \E j \in 1..Len(loc.assets.items) : loc.assets.items[j] = loc.asset
         /\ Happened("attempt") /\ Happened("file_check")
         /\ fileExistsNonZero(file)
         /\ Happened("fetch_checksum") /\ Happened("sha256")
         /\ loc.ckAnswer = "ok" /\ expectedOf(loc.ckText) = sha256(file)
    /\ (Recorded /\ ~Last.ok) => LastStage <= FailedStage(Last.reason)

\* a github request that went through all four stages and was installed
C2_Witness ==
  /\ Recorded
  /\ loc.type = "github"
  /\ Last.ok
  /\ Count("attempt") = 2

\* ------------------------------------------------------------ C3
\* C3: the batch always completes: until install() has returned it can take
\* a further step, whatever the subprocess, the download stream or the
\* network did, so no request keeps the later ones from running.
C3_BatchCompletes == pc = "done" \/ ENABLED Next

\* ------------------------------------------------------------ C4
\* messages of the exceptions a request can throw
Details ==
  { "spawn EPERM", TypeErrorMessage, "Cannot read properties of null (reading 'pipe')",
    "ENOENT: no such file or directory" }

\* C4: an exception thrown while request i is processed is caught by
\* install(), gives exactly one failure outcome for request i whose reason
\* is "fatal: <detail>", and the loop goes on with request i + 1.
C4_FatalOutcome ==
  (Happened("caught") /\ loc.req > 0) =>
    /\ pc = "loop"
    /\ idx = loc.req + 1
    /\ Len(results) = loc.req
    /\ ~Last.ok
    /\ \E d \in Details : Last.reason = "fatal: " \o d

\* C4 in the strict revision alone: its catch clause writes the reason
C4_StrictRevision == variant = "strict" => C4_FatalOutcome

\* the strict revision has caught a TypeError of selectAsset
C4_StrictWitness ==
  /\ variant = "strict"
  /\ Recorded
  /\ Last.reason = "fatal: " \o TypeErrorMessage

\* ------------------------------------------------------------ C5
\* the request has touched the network or started a subprocess
TouchedOutside ==
  \E j \in 1..Len(log) :
    log[j].ev \in { "probe_github", "probe_npm", "spawn", "fetch_release",
                    "attempt", "fetch_checksum" }

\* C5: an identifier that is only an ecosystem prefix (its payload is empty)
\* fails with the empty-package-name reason, with no network call and no
\* subprocess.
C5_EmptyPayloadRejected ==
  (variant = "strict" /\ loc.req > 0 /\ prefixOf(loc.pkg) # ""
     /\ stripPrefix(loc.pkg, prefixOf(loc.pkg) \o ":") = "") =>
    /\ ~TouchedOutside
    /\ Recorded => (~Last.ok /\ Last.reason = "empty package name")

\* ------------------------------------------------------------ C6
IsArchive(a) == a.hasName /\ (endsWith(a.name, ".tar.gz") \/ endsWith(a.name, ".zip"))

\* C6: when no asset of the release is a .tar.gz or a .zip (also when there
\* is no asset at all) no asset is chosen, no download is attempted and the
\* request fails.
C6_NoFallbackAsset ==
  (loc.type = "github" /\ Happened("fetch_release")
     /\ \A j \in 1..Len(loc.assets.items) : ~IsArchive(loc.assets.items[j])) =>
    /\ loc.asset = Nameless
    /\ ~Happened("attempt")
    /\ Recorded => ~Last.ok

\* C6 in the strict revision alone: its selectAsset has no fallback
C6_StrictRevision == variant = "strict" => C6_NoFallbackAsset

\* the strict revision has refused a release that holds only an .exe
C6_StrictWitness ==
  /\ variant = "strict"
  /\ Recorded
  /\ Last.reason = "no supported asset types"
  /\ Len(loc.assets.items) = 1

\* ------------------------------------------------------------ C7
\* index of the first asset whose name ends in suffix, 0 when there is none
FirstWith(items, suffix) ==
  LET hits == { j \in 1..Len(items) : items[j].hasName /\ endsWith(items[j].name, suffix) }
  IN IF hits = {} THEN 0 ELSE CHOOSE j \in hits : \A k \in hits : j <= k

AllNamed(items) == \A j \in 1..Len(items) : items[j].hasName

\* C7: for a list of named assets, the asset the request goes on with is the
\* first .tar.gz asset of the list when there is one (also behind a .zip),
\* otherwise the first .zip asset when there is one.
C7_SelectAssetPreference ==
  (loc.type = "github" /\ Happened("select_asset") /\ AllNamed(loc.assets.items)) =>
    LET items == loc.assets.items
        tgz == FirstWith(items, ".tar.gz")
        zip == FirstWith(items, ".zip")
    IN /\ tgz > 0 => loc.asset = items[tgz]
       /\ (tgz = 0 /\ zip > 0) => loc.asset = items[zip]

\* a download started for the first .tar.gz asset of a list that has a .zip
\* asset before it
C7_Witness ==
  /\ loc.type = "github"
  /\ pc = "download"
  /\ Len(loc.assets.items) >= 3
  /\ endsWith(loc.assets.items[1].name, ".zip")
  /\ loc.asset = loc.assets.items[2]
  /\ endsWith(loc.asset.name, ".tar.gz")

\* ------------------------------------------------------------ C8
\* the events of the log before position j
Before(j, e) == Cardinality({ k \in 1..(j - 1) : log[k].ev = e })

\* C8: one download makes at most 3 attempts, numbered 1, 2, 3; the attempt
\* that succeeds is the last one; the request is reported "download failed"
\* exactly when three attempts failed.
C8_AttemptBudget ==
  loc.type = "github" =>
    /\ Count("attempt") <= 3
    /\ \A j \in 1..Len(log) : log[j].ev = "attempt" => log[j].n = Before(j, "attempt") + 1
    /\ \A j \in 1..Len(log) :
         log[j].ev = "file_check" =>
           /\ j > 1 /\ log[j - 1].ev = "attempt"
           /\ \A k \in (j + 1)..Len(log) : log[k].ev # "attempt"
    /\ Recorded => (Last.reason = "download failed" <=> Count("wait") = 3)

\* a request whose three attempts all failed
C8_Witness ==
  /\ Recorded
  /\ loc.type = "github"
  /\ Last.reason = "download failed"
  /\ Count("attempt") = 3

\* ------------------------------------------------------------ C9
\* C9: attempt k + 1 comes directly after the one wait that follows failed
\* attempt k, that wait lasts 500 ms times k, the waits of one download are
\* strictly increasing, and while a wait is pending no attempt is started.
C9_LinearBackoff ==
  loc.type = "github" =>
    /\ \A j \in 1..Len(log) :
         (log[j].ev = "attempt" /\ log[j].n >= 2) =>
           /\ j >= 3
           /\ log[j - 1] = Ev("wait", 500 * (log[j].n - 1))
           /\ log[j - 2] = Ev("attempt", log[j].n - 1)
    /\ \A j \in 1..Len(log) :
         log[j].ev = "wait" => (j > 1 /\ log[j - 1].ev = "attempt")
    /\ \A j, k \in 1..Len(log) :
         (j < k /\ log[j].ev = "wait" /\ log[k].ev = "wait") => log[j].n < log[k].n
    /\ pc = "wait" =>
         /\ log[Len(log)].ev = "attempt"
         /\ loc.ms = 500 * log[Len(log)].n

\* the third attempt is under way, after waits of 500 and 1000 ms
C9_Witness ==
  /\ loc.type = "github"
  /\ pc = "stream"
  /\ Count("attempt") = 3
  /\ Count("wait") = 2

\* ------------------------------------------------------------ C10
\* C10: when the checksum request fails or answers non-2xx, or its trimmed
\* body is empty or shorter than 32 characters, the request ends with the
\* integrity failure after that one checksum fetch, whatever the downloaded
\* file holds; the strict revision then does not read the file at all.
C10_ChecksumRejectsShort ==
  (Recorded /\ loc.type = "github" /\ Happened("fetch_checksum")
     /\ (\/ loc.ckAnswer \in { "rejects", "notok" }
         \/ expectedOf(loc.ckText) = ""
         \/ Len(expectedOf(loc.ckText)) < 32)) =>
    /\ ~Last.ok
    /\ Last.reason \in IntegrityReasons
    /\ Count("fetch_checksum") = 1
    /\ Happened("file_check") /\ fileExistsNonZero(file)
    /\ variant = "strict" => ~Happened("sha256")

\* a complete download rejected for a 31-character checksum body
C10_Witness ==
  /\ Recorded
  /\ loc.type = "github"
  /\ file = "full"
  /\ loc.ckAnswer = "ok"
  /\ Len(expectedOf(loc.ckText)) = 31
  /\ Last.reason \in IntegrityReasons

\* ------------------------------------------------------------ C11
\* C11: when the checksum body was fetched, the request is accepted exactly
\* when the trimmed body equals, character for character, the lowercase hex
\* digest of the file that was read; a body that differs from the digest
\* only in the case of one letter is rejected.
C11_ExactDigestMatch ==
  (Recorded /\ loc.type = "github" /\ loc.ckAnswer = "ok") =>
    /\ Last.ok <=> expectedOf(loc.ckText) = sha256(file)
    /\ toLowerCase(sha256(file)) = sha256(file)
    /\ (expectedOf(loc.ckText) # sha256(file)
          /\ toLowerCase(expectedOf(loc.ckText)) = sha256(file)) =>
         (~Last.ok /\ Last.reason \in IntegrityReasons)

\* the digest of the full file with one upper-case letter was rejected
C11_Witness ==
  /\ Recorded
  /\ loc.type = "github"
  /\ loc.ckAnswer = "ok"
  /\ file = "full"
  /\ loc.ckText = UpperFirst
  /\ ~Last.ok

\* ------------------------------------------------------------ C12
\* exit code of the subprocess of the request, once it has closed
ClosedWith(code) == \E j \in 1..Len(log) : log[j] = Ev("close", code)

\* C12: an npm request whose subprocess exited with code zero while the
\* fingerprint of node_modules taken before the subprocess equals the one
\* taken after it ends with ok = false and a "no changes detected" reason;
\* an npm request ends with ok = true only when the exit code is zero and
\* the two fingerprints differ.
C12_NoOpInstallDetected ==
  (Recorded /\ loc.type = "npm" /\ Happened("close")) =>
    /\ (ClosedWith(0) /\ loc.before = snapshotDir(store)) =>
         (~Last.ok /\ startsWith(Last.reason, "no changes detected"))
    /\ Last.ok => (ClosedWith(0) /\ loc.before # snapshotDir(store))

\* npm exited with code zero and left an existing node_modules as it was
C12_Witness ==
  /\ Recorded
  /\ loc.type = "npm"
  /\ ClosedWith(0)
  /\ store.exists
  /\ loc.before = snapshotDir(store)
  /\ ~Last.ok

\* ------------------------------------------------------------ C13
\* the request has made a detection probe, or is waiting for one
Probed == Happened("probe_github") \/ Happened("probe_npm")
            \/ pc \in { "probe_github", "probe_npm" }

\* C13: an identifier that starts with one of the prefixes npm:, github:,
\* pip:, cargo:, go:, brew: is resolved by detectPackageType without a
\* probe to the ecosystem its prefix names, so the result is the same under
\* every network answer.
C13_PrefixedNeedsNoProbe ==
  /\ \A id \in Identifiers :
       prefixOf(trim(id)) # "" => detectPackageType(trim(id)) = prefixOf(trim(id))
  /\ (variant = "strict" /\ loc.req > 0 /\ prefixOf(loc.pkg) # "") =>
       /\ ~Probed
       /\ loc.type = prefixOf(loc.pkg)

\* a prefixed identifier that contains "/" has reached its installer
\* without a probe
C13_Witness ==
  /\ variant = "strict"
  /\ pc = "fetch_release"
  /\ loc.pkg = "github:o/r@v1"
  /\ loc.type = "github"
  /\ ~Probed

\* ------------------------------------------------------------ C14
\* positions of the log at which probe e was answered
ProbesOf(e) == { j \in 1..Len(log) : log[j].ev = e }

\* probe e was made and answered with success
ProbeOk(e) == \E j \in ProbesOf(e) : log[j].n = 1

\* detectPackageType has returned for the request in loc
Detected == loc.req > 0 /\ loc.type # ""

\* the request has entered an installer
Dispatched ==
  \E j \in 1..Len(log) : \E t \in Prefixed : log[j].ev = "install_" \o t

Busy ==
  { "probe_github", "probe_npm", "dispatch", "spawn", "child", "fetch_release",
    "download", "stream", "wait", "fetch_checksum", "aborted", "hung" }

C16_SecondaryInstallers ==
  (loc.req > 0 /\ loc.type \in Secondary) =>
    /\ Count("spawn") <= 1
    /\ Count("close") <= 1
    /\ Happened("close") =>
         /\ Recorded
         /\ log[Len(log)].ev = "close"
         /\ log[Len(log) - 1].ev = "spawn"
         /\ ClosedWith(0) => (Last.ok /\ Last.reason = Undefined)
         /\ ~ClosedWith(0) => (~Last.ok /\ Last.reason = loc.type \o " install failed")
    /\ (Recorded /\ Last.ok) => ClosedWith(0)
    /\ (Recorded /\ ~Happened("caught") /\ Dispatched) => Count("close") = 1

\* cargo install exited with code 1 and was recorded as failed
C16_Witness ==
  /\ Recorded
  /\ loc.type = "cargo"
  /\ ClosedWith(1)
  /\ Last.reason = "cargo install failed"
  /\ Count("spawn") = 1

\* ------------------------------------------------------------ C17
\* positions of the log at which the request entered an installer
Installs ==
  { j \in 1..Len(log) : \E t \in Prefixed : log[j].ev = "install_" \o t }

\* C17: a request whose type is npm, github, pip, cargo, go or brew is
\* handed to exactly one installer, the one of its type; a request whose
\* type is system or invalid is handed to none, starts no subprocess and no
\* release fetch, and is recorded at once as a failure with the fixed
\* reason of its case.
C17_ExactlyOneInstaller ==
  loc.req > 0 =>
    /\ loc.installers = Cardinality(Installs)
    /\ loc.installers <= 1
    /\ \A j \in Installs : log[j].ev = "install_" \o loc.type
    /\ (Recorded /\ loc.type \in Prefixed) => loc.installers = 1
    /\ loc.type \in { "system", "invalid" } =>
         /\ loc.installers = 0
         /\ pc \in { "dispatch", "loop" }
         /\ \A j \in 1..Len(log) : log[j].ev \in { "detect", "probe_github", "probe_npm" }
         /\ Recorded =>
              /\ ~Last.ok
              /\ Last.pkg = loc.pkg
              /\ Last.reason = IF loc.type = "system" THEN SystemToolReason
                                ELSE "unknown or invalid package"

\* a system tool and an unknown name were both recorded without an
\* installer
C17_Witness ==
  /\ Recorded
  /\ Len(results) = 2
  /\ results[1].reason = SystemToolReason
  /\ results[2].reason = "unknown or invalid package"
  /\ loc.installers = 0
  /\ Happened("probe_npm")

\* ------------------------------------------------------------ C18
\* C18: a download attempt is reported successful only when every byte of
\* the body has been written to the destination file, so when the
\* non-empty-file check runs, and from then on through the checksum
\* computation, the file holds the full downloaded content.
C18_FullFileWhenChecked ==
  (loc.type = "github" /\ Happened("file_check")) => file = "full"

\* ------------------------------------------------------------ C19
\* C19: when the download was reported successful and the destination file
\* is missing or empty at the check, the request is recorded at once as
\* failed with the empty-file reason: no further attempt is made and the
\* checksum is neither fetched nor computed.
C19_EmptyFileIsFailure ==
  (loc.type = "github" /\ Happened("file_check") /\ file \in { "missing", "empty" }) =>
    /\ Recorded
    /\ ~Last.ok
    /\ Last.reason \in EmptyFileReasons
    /\ log[Len(log)].ev = "file_check"
    /\ log[Len(log) - 1].ev = "attempt"
    /\ ~Happened("fetch_checksum")
    /\ ~Happened("sha256")

\* the second attempt was reported successful and left no file
C19_Witness ==
  /\ Recorded
  /\ loc.type = "github"
  /\ file = "missing"
  /\ Count("attempt") = 2
  /\ Last.reason \in EmptyFileReasons

\* ------------------------------------------------------------ C20
\* the endpoint the payload of a github request names: what follows the
\* first "@" is the tag, and without "@" it is the latest release
EndpointOf(payload) ==
  LET at == indexOf(payload, "@")
      repo == IF at = 0 THEN payload ELSE SubSeq(payload, 1, at - 1)
      tag == IF at = 0 THEN "latest" ELSE SubSeq(payload, at + 1, Len(payload))
  IN IF tag = "latest"
       THEN "https://api.github.com/repos/" \o repo \o "/releases/latest"
       ELSE "https://api.github.com/repos/" \o repo \o "/releases/tags/" \o tag

\* C20: a github request makes one release-metadata fetch, from the latest
\* endpoint when the version is "latest" or absent and from the endpoint of
\* the tag otherwise; when the fetch is rejected, answers non-2xx or has a
\* body that does not parse, the request is recorded at once as "release
\* not found": no second fetch and no later stage.
C20_ReleaseResolution ==
  (loc.req > 0 /\ loc.type = "github" /\ Dispatched) =>
    /\ Count("fetch_release") <= 1
    /\ loc.url = EndpointOf(loc.arg)
    /\ Happened("fetch_release") <=> loc.release # ""
    /\ loc.release \in { "rejects", "notok", "unparsable", "null" } =>
         /\ Recorded
         /\ ~Last.ok
         /\ Last.reason = "release not found"
         /\ log[Len(log)].ev = "fetch_release"
         /\ LastStage = 1
    /\ (Recorded /\ Last.reason = "release not found") => loc.release # "release"

\* the tag endpoint answered with a body that does not parse
C20_Witness ==
  /\ Recorded
  /\ loc.type = "github"
  /\ loc.arg = "o/r@v1"
  /\ loc.url = "https://api.github.com/repos/o/r/releases/tags/v1"
  /\ loc.release = "unparsable"
  /\ Last.reason = "release not found"

\* ------------------------------------------------------------ C21
\* the waits of the request, in order
RECURSIVE WaitsOf(_)
WaitsOf(q) ==
  IF Len(q) = 0 THEN <<>>
  ELSE IF Head(q).ev = "wait" THEN <<Head(q).n>> \o WaitsOf(Tail(q))
  ELSE WaitsOf(Tail(q))

\* attempts for which downloadFile has resolved false: all attempts but the
\* one whose body is still streaming, the one that succeeded and the one
\* that threw
FailedAttempts ==
  Count("attempt")
    - (IF pc \in { "stream", "hung" } THEN 1 ELSE 0)
    - (IF Happened("file_check") THEN 1 ELSE 0)
    - Cardinality({ j \in 1..(Len(log) - 1) :
                      log[j].ev = "attempt" /\ log[j + 1].ev = "throw" })

\* C21: every failed attempt of downloadWithRetry is followed by a wait,
\* the last one too: the waits started equal the failed attempts at every
\* moment, and a request is recorded as "download failed" only after 3
\* attempts and 3 elapsed waits of 500, 1000 and 1500 ms, the third wait
\* being the last thing it did.
C21_WaitAfterEveryFailure ==
  (loc.req > 0 /\ loc.type = "github") =>
    /\ Count("wait") + (IF pc = "wait" THEN 1 ELSE 0) = FailedAttempts
    /\ (pc = "wait" /\ Count("attempt") = 3) => loc.ms = 1500
    /\ (Recorded /\ Last.reason = "download failed") =>
         /\ Count("attempt") = 3
         /\ WaitsOf(log) = <<500, 1000, 1500>>
         /\ log[Len(log)] = Ev("wait", 1500)
         /\ log[Len(log) - 1] = Ev("attempt", 3)

\* the budget is used up: three attempts, and the third wait has elapsed
C21_Witness ==
  /\ Recorded
  /\ loc.type = "github"
  /\ Last.reason = "download failed"
  /\ WaitsOf(log) = <<500, 1000, 1500>>
  /\ FailedAttempts = 3

\* ------------------------------------------------------------ C22
\* C22: an identifier of fewer than 2 characters after trimming is
\* classified invalid by the first test of detectPackageType: the request
\* makes no probe and enters no installer, whatever the registry would
\* have answered, and is recorded as a failure (under "empty package name"
\* when nothing is left after trimming, which install() tests itself).
C22_ShortIdentifierInvalid ==
  /\ \A id \in Identifiers :
       Len(trim(id)) < 2 => detectPackageType(trim(id)) = "invalid"
  /\ variant = "strict" =>
       /\ \A i \in 1..Len(results) :
            Len(trim(pkgs[i])) < 2 =>
              /\ ~results[i].ok
              /\ results[i].reason = IF trim(pkgs[i]) = "" THEN "empty package name"
                                      ELSE "unknown or invalid package"
       /\ (loc.req > 0 /\ Len(loc.pkg) < 2) =>
            /\ loc.type = "invalid"
            /\ log = <<Ev("detect", 0)>>
            /\ loc.installers = 0
            /\ pc \in { "dispatch", "loop" }

\* a one-character name was recorded as invalid without a probe
C22_Witness ==
  /\ variant = "strict"
  /\ Recorded
  /\ loc.pkg = "x"
  /\ Last.reason = "unknown or invalid package"
  /\ ~Probed

====
